---- MODULE Spec2Model ----
(***************************************************************************)
(* A model of the staty statistics library (staty.py) and of the logistic  *)
(* regression classifier (regression.py).                                  *)
(*                                                                         *)
(* Numbers.  The value of a Python float in the state is the real number   *)
(* it stands for, in exact arithmetic: a rational is a reduced pair        *)
(* <<num, den>> with den > 0, and a value that has passed through          *)
(* math.sqrt is a "surd" sgn * sqrt(sq) with sq a rational.  The rounded   *)
(* values, the IEEE doubles the variance and interval functions return,    *)
(* are computed by the operators of the section Binary64.                  *)
(*                                                                         *)
(* Calls.  Every Python call is an operator that yields an outcome record: *)
(* [kind |-> "return", type |-> t, value |-> v], t the Python type of the   *)
(* value, or [kind |-> "raise", exc |-> e, msg |-> m].                     *)
(***************************************************************************)
EXTENDS Integers, Sequences, FiniteSets

VARIABLES data_x, data_y, call, result, ppf_calls, self_w, self_b, last_fit

vars == <<data_x, data_y, call, result, ppf_calls, self_w, self_b, last_fit>>

---------------------------------------------------------------------------
(* Bounds of the model.                                                    *)

MaxLen == 4
MaxVal == 2
MaxPairLen == 3
MaxQuantile == 1
MaxIter == 2
MaxVarLen == 5

---------------------------------------------------------------------------
(* Exact arithmetic.                                                       *)

Abs(i) == IF i < 0 THEN -i ELSE i

Sign(i) == IF i < 0 THEN -1 ELSE IF i = 0 THEN 0 ELSE 1

(* The sequence of the values of f, all of them computed.                  *)
Computed(f) == f \o <<>>

RECURSIVE GCD(_, _)
GCD(a, b) == IF b = 0 THEN a ELSE GCD(b, a % b)

Rat(n, d) ==
    LET g == GCD(Abs(n), Abs(d))
    IN  <<(Sign(d) * n) \div g, Abs(d) \div g>>

FromInt(i) == <<i, 1>>

RZero == <<0, 1>>

RAdd(a, b) == Rat(a[1] * b[2] + b[1] * a[2], a[2] * b[2])

RSub(a, b) == Rat(a[1] * b[2] - b[1] * a[2], a[2] * b[2])

RMul(a, b) == Rat(a[1] * b[1], a[2] * b[2])

RDiv(a, b) == Rat(a[1] * b[2], a[2] * b[1])

RLess(a, b) == a[1] * b[2] < b[1] * a[2]

(* sgn * sqrt(sq): the values that math.sqrt, and products and quotients   *)
(* of its results, take.                                                   *)
Surd(sgn, sq) == [sgn |-> IF sq = RZero THEN 0 ELSE sgn, sq |-> sq]

RToS(q) == Surd(Sign(q[1]), RMul(q, q))

SMul(a, b) == Surd(a.sgn * b.sgn, RMul(a.sq, b.sq))

SDiv(a, b) == Surd(a.sgn * b.sgn, RDiv(a.sq, b.sq))

SNeg(a) == Surd(-a.sgn, a.sq)

(* rat + surd: the values of m - me and m + me.                            *)
Lin(q, s) == [rat |-> q, surd |-> s]

---------------------------------------------------------------------------
(* Outcomes of a call.                                                     *)

Return(t, v) == [kind |-> "return", type |-> t, value |-> v]

Raise(e, m) == [kind |-> "raise", exc |-> e, msg |-> m]

NoResult == [kind |-> "none"]

None == [type |-> "NoneType"]

MinLenMsg == "The list must contain at least 2 elements"

SameLenMsg == "The lists must be of the same length"

ZeroDivisionError == Raise("ZeroDivisionError", "float division by zero")

TypeError == Raise("TypeError", "unsupported operand type(s) for +: 'int' and 'str'")

(* a / b on floats.                                                        *)
TrueDiv(a, b) == IF b = RZero THEN ZeroDivisionError ELSE Return("float", RDiv(a, b))

(* a / b where an operand came out of math.sqrt.                           *)
SurdDiv(a, b) == IF b.sgn = 0 THEN ZeroDivisionError ELSE Return("float", SDiv(a, b))

(* math.sqrt of a non-negative float.                                      *)
sqrt(q) == Surd(1, q)

---------------------------------------------------------------------------
(* Samples.  A sample is a Python list; elem says whether its elements     *)
(* are numbers (int) or strings (str).                                     *)

Strs == <<"a", "b", "c", "d">>

StrRank(s) == CHOOSE i \in 1..Len(Strs) : Strs[i] = s

SeqsUpTo(S, n) == UNION {[1..k -> S] : k \in 0..n}

NumSample(items) == [elem |-> "num", items |-> items]

StrSample(items) == [elem |-> "str", items |-> items]

NumSamples == {NumSample(s) : s \in SeqsUpTo(0..MaxVal, MaxLen)}

StrSamples == {StrSample(s) : s \in SeqsUpTo({Strs[i] : i \in 1..Len(Strs)}, MaxLen)}

PairSamples == {NumSample(s) : s \in SeqsUpTo({0, 1}, MaxPairLen)}

EmptySample == NumSample(<<>>)

len(data) == Len(data.items)

(* x < y on list elements: numbers by value, strings lexicographically.    *)
ElemLess(elem, x, y) == IF elem = "num" THEN x < y ELSE StrRank(x) < StrRank(y)

---------------------------------------------------------------------------
(* Validation helpers.                                                     *)

(* _validate_min_len with the test n < 1                                   *)
_validate_min_len_nonempty(n) ==
    IF n < 1 THEN Raise("ValueError", MinLenMsg) ELSE Return("NoneType", None)

_validate_min_len(n) ==
    IF n < 2 THEN Raise("ValueError", MinLenMsg) ELSE Return("NoneType", None)

(* _ensure_equal_len with the lengths compared before they are validated   *)
_ensure_equal_len_compare_first(n1, n2) ==
    LET v1 == _validate_min_len(n1)
        v2 == _validate_min_len(n2)
    IN  IF n1 # n2 THEN Raise("ValueError", SameLenMsg)
        ELSE IF v1.kind = "raise" THEN v1
        ELSE IF v2.kind = "raise" THEN v2
        ELSE Return("NoneType", None)

_ensure_equal_len(n1, n2) ==
    LET v1 == _validate_min_len(n1)
        v2 == _validate_min_len(n2)
    IN  IF v1.kind = "raise" THEN v1
        ELSE IF v2.kind = "raise" THEN v2
        ELSE IF n1 # n2 THEN Raise("ValueError", SameLenMsg)
        ELSE Return("NoneType", None)

---------------------------------------------------------------------------
(* Descriptive statistics.                                                 *)

RECURSIVE SumInts(_)
SumInts(s) == IF s = <<>> THEN 0 ELSE s[1] + SumInts(Tail(s))

RECURSIVE SumRats(_)
SumRats(s) == IF s = <<>> THEN RZero ELSE RAdd(s[1], SumRats(Tail(s)))

(* sum(data): 0 + data[0] is a TypeError on a list of strings.             *)
sum(data) ==
    IF data.elem = "str" /\ len(data) > 0 THEN TypeError
    ELSE Return("int", FromInt(SumInts(data.items)))

mean(data) ==
    LET n == len(data)
        v == _validate_min_len(n)
        s == sum(data)
    IN  IF v.kind = "raise" THEN v
        ELSE IF s.kind = "raise" THEN s
        ELSE TrueDiv(s.value, FromInt(n))

_squared_difference(data, mean_value) ==
    SumRats(Computed([i \in 1..len(data) |->
                LET d == RSub(FromInt(data.items[i]), mean_value) IN RMul(d, d)]))

(* var with the divisor n - 1 whatever is_sample is                        *)
var_always_sample(data, is_sample) ==
    LET n == len(data)
        v == _validate_min_len(n)
        m == mean(data)
    IN  IF v.kind = "raise" THEN v
        ELSE IF m.kind = "raise" THEN m
        ELSE TrueDiv(_squared_difference(data, m.value), FromInt(n - 1))

(* the value of the parameter is_sample of var in a call that leaves it    *)
(* out                                                                     *)
is_sample_default == TRUE

var(data, is_sample) ==
    LET n == len(data)
        v == _validate_min_len(n)
        m == mean(data)
    IN  IF v.kind = "raise" THEN v
        ELSE IF m.kind = "raise" THEN m
        ELSE TrueDiv(_squared_difference(data, m.value),
                     FromInt(IF is_sample THEN n - 1 ELSE n))

stdev(data, is_sample) ==
    LET v == _validate_min_len(len(data))
        variance == var(data, is_sample)
    IN  IF v.kind = "raise" THEN v
        ELSE IF variance.kind = "raise" THEN variance
        ELSE Return("float", sqrt(variance.value))

stderr(data, is_sample) ==
    LET n == len(data)
        v == _validate_min_len(n)
        std_dev == stdev(data, is_sample)
    IN  IF v.kind = "raise" THEN v
        ELSE IF std_dev.kind = "raise" THEN std_dev
        ELSE SurdDiv(std_dev.value, sqrt(FromInt(n)))

cv(data, is_sample) ==
    LET v == _validate_min_len(len(data))
        std_dev == stdev(data, is_sample)
        m == mean(data)
    IN  IF v.kind = "raise" THEN v
        ELSE IF std_dev.kind = "raise" THEN std_dev
        ELSE IF m.kind = "raise" THEN m
        ELSE SurdDiv(std_dev.value, RToS(m.value))

(* sorted(data): ascending, stable.                                        *)
RECURSIVE Insert(_, _, _)
Insert(elem, s, x) ==
    IF s = <<>> THEN <<x>>
    ELSE IF ElemLess(elem, x, s[1]) THEN <<x>> \o s
    ELSE <<s[1]>> \o Insert(elem, Tail(s), x)

RECURSIVE SortItems(_, _)
SortItems(elem, s) ==
    IF s = <<>> THEN <<>>
    ELSE Insert(elem, SortItems(elem, SubSeq(s, 1, Len(s) - 1)), s[Len(s)])

(* sorted left out: the data in the order given                            *)
sorted_as_given(data) == data

sorted(data) == [elem |-> data.elem, items |-> SortItems(data.elem, data.items)]

(* isinstance(x, (float, int)) for an element of data.                     *)
IsNumber(data) == data.elem = "num"

ElemType(data) == IF data.elem = "num" THEN "int" ELSE "str"

median(data) ==
    LET n == len(data)
        v == _validate_min_len(n)
        s == sorted(data).items
        middle_right == n \div 2
        middle_left == middle_right - 1
    IN  IF v.kind = "raise" THEN v
        ELSE IF n % 2 = 0
             THEN IF IsNumber(data)
                  THEN TrueDiv(FromInt(s[middle_left + 1] + s[middle_right + 1]), FromInt(2))
                  ELSE Return("tuple", <<s[middle_left + 1], s[middle_right + 1]>>)
             ELSE Return(ElemType(data), s[n \div 2 + 1])

(* Counter(data): the distinct values in the order of their first          *)
(* occurrence, each with its number of occurrences.                        *)
(* Counter with the distinct values in the order of their last occurrence  *)
RECURSIVE CounterKeysLast(_)
CounterKeysLast(s) ==
    IF s = <<>> THEN <<>>
    ELSE LET rest == CounterKeysLast(Tail(s))
             x == s[1]
         IN  IF \E i \in 1..Len(rest) : rest[i] = x THEN rest ELSE <<x>> \o rest

RECURSIVE CounterKeys(_)
CounterKeys(s) ==
    IF s = <<>> THEN <<>>
    ELSE LET rest == CounterKeys(SubSeq(s, 1, Len(s) - 1))
             x == s[Len(s)]
         IN  IF \E i \in 1..Len(rest) : rest[i] = x THEN rest ELSE Append(rest, x)

CounterCount(s, x) == Cardinality({i \in 1..Len(s) : s[i] = x})

Counter(data) ==
    LET keys == CounterKeys(data.items)
    IN  Computed([i \in 1..Len(keys) |-> <<keys[i], CounterCount(data.items, keys[i])>>])

MaxOf(S) == CHOOSE m \in S : \A k \in S : k <= m

mode(data) ==
    LET v == _validate_min_len(len(data))
        counts == Counter(data)
        max_count == MaxOf({counts[i][2] : i \in 1..Len(counts)})
        IsMax(item) == item[2] = max_count
        picked == SelectSeq(counts, IsMax)
        modes == Computed([i \in 1..Len(picked) |-> picked[i][1]])
    IN  IF v.kind = "raise" THEN v
        ELSE IF Len(modes) = 1 THEN Return(ElemType(data), modes[1])
        ELSE Return("list", modes)

---------------------------------------------------------------------------
(* Standardization.                                                        *)

(* [(value - m) / std_dev for value in data]                               *)
Standardize(data, m, std_dev) ==
    IF std_dev.sgn = 0 THEN ZeroDivisionError
    ELSE Return("list", Computed([i \in 1..len(data) |->
                            SDiv(RToS(RSub(FromInt(data.items[i]), m)), std_dev)]))

(* zscore with the sample standard deviation                               *)
zscore_sample(data) ==
    LET v == _validate_min_len(len(data))
        m == mean(data)
        std_dev == stdev(data, TRUE)
    IN  IF v.kind = "raise" THEN v
        ELSE IF m.kind = "raise" THEN m
        ELSE IF std_dev.kind = "raise" THEN std_dev
        ELSE Standardize(data, m.value, std_dev.value)

zscore(data) ==
    LET v == _validate_min_len(len(data))
        m == mean(data)
        std_dev == stdev(data, FALSE)
    IN  IF v.kind = "raise" THEN v
        ELSE IF m.kind = "raise" THEN m
        ELSE IF std_dev.kind = "raise" THEN std_dev
        ELSE Standardize(data, m.value, std_dev.value)

(* tscore with the population standard deviation                           *)
tscore_population(data) ==
    LET v == _validate_min_len(len(data))
        m == mean(data)
        std_dev == stdev(data, FALSE)
    IN  IF v.kind = "raise" THEN v
        ELSE IF m.kind = "raise" THEN m
        ELSE IF std_dev.kind = "raise" THEN std_dev
        ELSE Standardize(data, m.value, std_dev.value)

tscore(data) ==
    LET v == _validate_min_len(len(data))
        m == mean(data)
        std_dev == stdev(data, TRUE)
    IN  IF v.kind = "raise" THEN v
        ELSE IF m.kind = "raise" THEN m
        ELSE IF std_dev.kind = "raise" THEN std_dev
        ELSE Standardize(data, m.value, std_dev.value)

---------------------------------------------------------------------------
(* Bivariate statistics.                                                   *)

(* pooled_var with the two lengths required to be equal                    *)
pooled_var_equal_len(data_x_, data_y_) ==
    LET nx == len(data_x_)
        ny == len(data_y_)
        v == _ensure_equal_len(nx, ny)
        var_x == var(data_x_, TRUE)
        var_y == var(data_y_, TRUE)
    IN  IF v.kind = "raise" THEN v
        ELSE IF var_x.kind = "raise" THEN var_x
        ELSE IF var_y.kind = "raise" THEN var_y
        ELSE TrueDiv(RAdd(RMul(FromInt(nx - 1), var_x.value),
                          RMul(FromInt(ny - 1), var_y.value)),
                     FromInt(nx + ny - 2))

pooled_var(data_x_, data_y_) ==
    LET nx == len(data_x_)
        ny == len(data_y_)
        vx == _validate_min_len(nx)
        vy == _validate_min_len(ny)
        var_x == var(data_x_, TRUE)
        var_y == var(data_y_, TRUE)
    IN  IF vx.kind = "raise" THEN vx
        ELSE IF vy.kind = "raise" THEN vy
        ELSE IF var_x.kind = "raise" THEN var_x
        ELSE IF var_y.kind = "raise" THEN var_y
        ELSE TrueDiv(RAdd(RMul(FromInt(nx - 1), var_x.value),
                          RMul(FromInt(ny - 1), var_y.value)),
                     FromInt(nx + ny - 2))

cov(data_x_, data_y_, is_sample) ==
    LET n == len(data_x_)
        v == _ensure_equal_len(len(data_y_), n)
        mx == mean(data_x_)
        my == mean(data_y_)
    IN  IF v.kind = "raise" THEN v
        ELSE IF mx.kind = "raise" THEN mx
        ELSE IF my.kind = "raise" THEN my
        ELSE TrueDiv(SumRats(Computed([i \in 1..n |->
                                 RMul(RSub(FromInt(data_x_.items[i]), mx.value),
                                      RSub(FromInt(data_y_.items[i]), my.value))])),
                     FromInt(IF is_sample THEN n - 1 ELSE n))

(* correlation_r with is_sample not passed on to stdev                     *)
correlation_r_default_stdev(data_x_, data_y_, is_sample) ==
    LET n == len(data_x_)
        v == _ensure_equal_len(len(data_y_), n)
        covariance == cov(data_x_, data_y_, is_sample)
        sx == stdev(data_x_, TRUE)
        sy == stdev(data_y_, TRUE)
    IN  IF v.kind = "raise" THEN v
        ELSE IF covariance.kind = "raise" THEN covariance
        ELSE IF sx.kind = "raise" THEN sx
        ELSE IF sy.kind = "raise" THEN sy
        ELSE SurdDiv(RToS(covariance.value), SMul(sx.value, sy.value))

correlation_r(data_x_, data_y_, is_sample) ==
    LET n == len(data_x_)
        v == _ensure_equal_len(len(data_y_), n)
        covariance == cov(data_x_, data_y_, is_sample)
        sx == stdev(data_x_, is_sample)
        sy == stdev(data_y_, is_sample)
    IN  IF v.kind = "raise" THEN v
        ELSE IF covariance.kind = "raise" THEN covariance
        ELSE IF sx.kind = "raise" THEN sx
        ELSE IF sy.kind = "raise" THEN sy
        ELSE SurdDiv(RToS(covariance.value), SMul(sx.value, sy.value))

---------------------------------------------------------------------------
(* Interval estimation.  The quantile functions stats.norm.ppf and         *)
(* stats.t.ppf belong to a collaborator: the value one returns is the      *)
(* parameter ppf, and an operation yields, with its outcome, the calls it  *)
(* made to the collaborator.                                               *)

One == FromInt(1)

Two == FromInt(2)

(* 1 - alpha/2 with alpha = 1 - confidence_lvl                             *)
QuantileLevel(confidence_lvl) == RSub(One, RDiv(RSub(One, confidence_lvl), Two))

NormPpf(confidence_lvl) == [fn |-> "norm.ppf", p |-> QuantileLevel(confidence_lvl)]

TPpf(confidence_lvl, df) == [fn |-> "t.ppf", p |-> QuantileLevel(confidence_lvl), df |-> df]

Outcome(r, calls) == [outcome |-> r, ppf |-> calls]

(* the bounds -me, +me: the margin of error on either side of 0            *)
Interval_about_zero(m, me) == Return("tuple", <<Lin(RZero, SNeg(me)), Lin(RZero, me)>>)

(* m - me, m + me                                                          *)
Interval(m, me) == Return("tuple", <<Lin(m, SNeg(me)), Lin(m, me)>>)

z_interval(data, confidence_lvl, ppf) ==
    LET v == _validate_min_len(len(data))
        calls == <<NormPpf(confidence_lvl)>>
        z_value == RToS(ppf)
        m == mean(data)
        std_err == stderr(data, FALSE)
    IN  IF v.kind = "raise" THEN Outcome(v, <<>>)
        ELSE IF m.kind = "raise" THEN Outcome(m, calls)
        ELSE IF std_err.kind = "raise" THEN Outcome(std_err, calls)
        ELSE Outcome(Interval(m.value, SMul(z_value, std_err.value)), calls)

z_interval_equal_var(data_x_, data_y_, confidence_lvl, ppf) ==
    LET nx == len(data_x_)
        ny == len(data_y_)
        vx == _validate_min_len(nx)
        vy == _validate_min_len(ny)
        calls == <<NormPpf(confidence_lvl)>>
        z_value == RToS(ppf)
        mx == mean(data_x_)
        my == mean(data_y_)
        var_x == var(data_x_, FALSE)
        var_y == var(data_y_, FALSE)
    IN  IF vx.kind = "raise" THEN Outcome(vx, <<>>)
        ELSE IF vy.kind = "raise" THEN Outcome(vy, <<>>)
        ELSE IF mx.kind = "raise" THEN Outcome(mx, calls)
        ELSE IF my.kind = "raise" THEN Outcome(my, calls)
        ELSE IF var_x.kind = "raise" THEN Outcome(var_x, calls)
        ELSE IF var_y.kind = "raise" THEN Outcome(var_y, calls)
        ELSE Outcome(Interval(RSub(mx.value, my.value),
                              SMul(z_value,
                                   sqrt(RAdd(RDiv(var_x.value, FromInt(nx)),
                                             RDiv(var_y.value, FromInt(ny)))))),
                     calls)

t_interval(data, confidence_lvl, ppf) ==
    LET n == len(data)
        v == _validate_min_len(n)
        calls == <<TPpf(confidence_lvl, n - 1)>>
        t_value == RToS(ppf)
        m == mean(data)
        std_err == stderr(data, TRUE)
    IN  IF v.kind = "raise" THEN Outcome(v, <<>>)
        ELSE IF m.kind = "raise" THEN Outcome(m, calls)
        ELSE IF std_err.kind = "raise" THEN Outcome(std_err, calls)
        ELSE Outcome(Interval(m.value, SMul(t_value, std_err.value)), calls)

t_interval_equal_var(data_x_, data_y_, confidence_lvl, ppf) ==
    LET nx == len(data_x_)
        ny == len(data_y_)
        vx == _validate_min_len(nx)
        vy == _validate_min_len(ny)
        calls == <<TPpf(confidence_lvl, nx + ny - 2)>>
        t_value == RToS(ppf)
        mx == mean(data_x_)
        my == mean(data_y_)
        p == pooled_var(data_x_, data_y_)
    IN  IF vx.kind = "raise" THEN Outcome(vx, <<>>)
        ELSE IF vy.kind = "raise" THEN Outcome(vy, <<>>)
        ELSE IF mx.kind = "raise" THEN Outcome(mx, calls)
        ELSE IF my.kind = "raise" THEN Outcome(my, calls)
        ELSE IF p.kind = "raise" THEN Outcome(p, calls)
        ELSE Outcome(Interval(RSub(mx.value, my.value),
                              SMul(t_value,
                                   sqrt(RAdd(RDiv(p.value, FromInt(nx)),
                                             RDiv(p.value, FromInt(ny)))))),
                     calls)
---------------------------------------------------------------------------
(* Binary64.  The results of the float operations as CPython computes      *)
(* them: IEEE 754 doubles, every operation rounded to the nearest double,  *)
(* ties to even.  A natural number is the sequence of its digits in base   *)
(* LimbBase, least significant first, without leading zeros; a double is   *)
(* s * m * 2^e with s its sign, m a natural of Precision bits (or 0) and e *)
(* an integer.  Infinities, NaN and subnormal numbers do not arise from    *)
(* the samples drawn and are left out.                                     *)

LimbBits == 15

LimbBase == 2^LimbBits

Precision == 53

Limb(a, i) == IF i <= Len(a) THEN a[i] ELSE 0

RECURSIVE BNorm(_)
BNorm(a) ==
    IF a = <<>> THEN a
    ELSE IF a[Len(a)] = 0 THEN BNorm(SubSeq(a, 1, Len(a) - 1))
    ELSE a

BFromInt(n) ==
    IF n = 0 THEN <<>>
    ELSE IF n < LimbBase THEN <<n>>
    ELSE <<n % LimbBase, n \div LimbBase>>

RECURSIVE BAddFrom(_, _, _, _)
BAddFrom(a, b, i, carry) ==
    IF i > Len(a) /\ i > Len(b) THEN (IF carry = 0 THEN <<>> ELSE <<carry>>)
    ELSE LET t == Limb(a, i) + Limb(b, i) + carry
         IN  <<t % LimbBase>> \o BAddFrom(a, b, i + 1, t \div LimbBase)

BAdd(a, b) == BAddFrom(a, b, 1, 0)

RECURSIVE BSubFrom(_, _, _, _)
BSubFrom(a, b, i, borrow) ==
    IF i > Len(a) THEN <<>>
    ELSE LET t == a[i] - Limb(b, i) - borrow
         IN  <<IF t < 0 THEN t + LimbBase ELSE t>>
                 \o BSubFrom(a, b, i + 1, IF t < 0 THEN 1 ELSE 0)

(* a - b for a >= b                                                        *)
BSub(a, b) == BNorm(BSubFrom(a, b, 1, 0))

BLess(a, b) ==
    IF Len(a) # Len(b) THEN Len(a) < Len(b)
    ELSE LET differ == {i \in 1..Len(a) : a[i] # b[i]}
         IN  /\ differ # {}
             /\ LET top == CHOOSE i \in differ : \A j \in differ : j <= i
                IN  a[top] < b[top]

RECURSIVE BMulSmallFrom(_, _, _, _)
BMulSmallFrom(a, k, i, carry) ==
    IF i > Len(a) THEN (IF carry = 0 THEN <<>> ELSE <<carry>>)
    ELSE LET t == a[i] * k + carry
         IN  <<t % LimbBase>> \o BMulSmallFrom(a, k, i + 1, t \div LimbBase)

(* a * k for 0 <= k < LimbBase                                             *)
BMulSmall(a, k) == IF k = 0 THEN <<>> ELSE BMulSmallFrom(a, k, 1, 0)

BShiftLimbs(a, q) == IF a = <<>> THEN a ELSE [i \in 1..q |-> 0] \o a

RECURSIVE BMulFrom(_, _, _)
BMulFrom(a, b, j) ==
    IF j > Len(b) THEN <<>>
    ELSE BAdd(BShiftLimbs(BMulSmall(a, b[j]), j - 1), BMulFrom(a, b, j + 1))

BMul(a, b) == BMulFrom(a, b, 1)

(* quotient and remainder of the limbs 1..i of a, below rem, by k          *)
RECURSIVE BDivSmallFrom(_, _, _, _)
BDivSmallFrom(a, k, i, rem) ==
    IF i = 0 THEN [q |-> <<>>, r |-> rem]
    ELSE LET cur == rem * LimbBase + a[i]
             rest == BDivSmallFrom(a, k, i - 1, cur % k)
         IN  [q |-> Append(rest.q, cur \div k), r |-> rest.r]

BDivSmall(a, k) ==
    LET d == BDivSmallFrom(a, k, Len(a), 0) IN [q |-> BNorm(d.q), r |-> d.r]

(* a * 2^n                                                                 *)
BShl(a, n) == BShiftLimbs(BMulSmall(a, 2^(n % LimbBits)), n \div LimbBits)

(* a / 2^n rounded down, and whether bits were lost                        *)
BShr(a, n) ==
    LET q == n \div LimbBits
        d == BDivSmall(SubSeq(a, q + 1, Len(a)), 2^(n % LimbBits))
    IN  [q |-> d.q,
         sticky |-> d.r # 0 \/ \E i \in 1..q : Limb(a, i) # 0]

BitLen(a) ==
    IF a = <<>> THEN 0
    ELSE LimbBits * (Len(a) - 1)
             + (CHOOSE k \in 1..LimbBits : 2^(k - 1) <= a[Len(a)] /\ a[Len(a)] < 2^k)

BOdd(a) == a # <<>> /\ a[1] % 2 = 1

Double(s, m, e) == [s |-> s, m |-> m, e |-> e]

DZero == Double(0, <<>>, 0)

(* the double nearest to s * (m + f) * 2^e, where 0 <= f < 1 and f > 0 iff *)
(* sticky; m has more than Precision bits when sticky                      *)
DRound(s, m, e, sticky) ==
    LET bits == BitLen(m)
        drop == bits - Precision
    IN  IF m = <<>> THEN DZero
        ELSE IF drop <= 0 THEN Double(s, BShl(m, -drop), e + drop)
        ELSE LET g == BShr(m, drop - 1)
                 keep == BDivSmall(g.q, 2).q
                 half == BOdd(g.q)
                 up == half /\ (g.sticky \/ sticky \/ BOdd(keep))
                 r == IF up THEN BAdd(keep, <<1>>) ELSE keep
             IN  IF BitLen(r) > Precision THEN Double(s, BDivSmall(r, 2).q, e + drop + 1)
                 ELSE Double(s, r, e + drop)

DFromInt(n) == DRound(Sign(n), BFromInt(Abs(n)), 0, FALSE)

DNeg(x) == Double(-x.s, x.m, x.e)

DAdd(x, y) ==
    IF x.s = 0 THEN y
    ELSE IF y.s = 0 THEN x
    ELSE LET e == IF x.e < y.e THEN x.e ELSE y.e
             mx == BShl(x.m, x.e - e)
             my == BShl(y.m, y.e - e)
         IN  IF x.s = y.s THEN DRound(x.s, BAdd(mx, my), e, FALSE)
             ELSE IF mx = my THEN DZero
             ELSE IF BLess(mx, my) THEN DRound(y.s, BSub(my, mx), e, FALSE)
             ELSE DRound(x.s, BSub(mx, my), e, FALSE)

DSub(x, y) == DAdd(x, DNeg(y))

DMul(x, y) ==
    IF x.s = 0 \/ y.s = 0 THEN DZero
    ELSE DRound(x.s * y.s, BMul(x.m, y.m), x.e + y.e, FALSE)

GuardBits == 3

(* one step of long division by y: from the quotient and remainder d of a  *)
(* number, those of twice the number                                       *)
BLongDivStep(d, y) ==
    LET r2 == BMulSmall(d.r, 2)
        q2 == BMulSmall(d.q, 2)
    IN  IF BLess(r2, y) THEN [q |-> q2, r |-> r2]
        ELSE [q |-> BAdd(q2, <<1>>), r |-> BSub(r2, y)]

(* i steps of long division by y from d                                    *)
RECURSIVE BLongDiv(_, _, _)
BLongDiv(d, y, i) ==
    IF i = 0 THEN d
    ELSE IF d.r = <<>> THEN [q |-> BShl(d.q, i), r |-> <<>>]
    ELSE BLongDiv(BLongDivStep(d, y), y, i - 1)

(* x / y for y # 0                                                         *)
DDiv(x, y) ==
    IF x.s = 0 THEN DZero
    ELSE LET first == IF BLess(x.m, y.m) THEN [q |-> <<>>, r |-> x.m]
                      ELSE [q |-> <<1>>, r |-> BSub(x.m, y.m)]
             d == BLongDiv(first, y.m, Precision + GuardBits)
         IN  DRound(x.s * y.s, d.q, x.e - y.e - (Precision + GuardBits), d.r # <<>>)

(* the largest r with r * r <= n, among the r below 2^i that extend r      *)
RECURSIVE BSqrtFrom(_, _, _)
BSqrtFrom(n, i, r) ==
    IF i = 0 THEN r
    ELSE LET c == BAdd(r, BShl(<<1>>, i - 1))
         IN  IF BLess(n, BMul(c, c)) THEN BSqrtFrom(n, i - 1, r)
             ELSE BSqrtFrom(n, i - 1, c)

(* math.sqrt(x) for x >= 0                                                 *)
DSqrt(x) ==
    IF x.s = 0 THEN DZero
    ELSE LET j == Precision + 2 * GuardBits + ((x.e + Precision) % 2)
             n == BShl(x.m, j)
             r == BSqrtFrom(n, (BitLen(n) + 1) \div 2, <<>>)
         IN  DRound(1, r, (x.e - j) \div 2, BMul(r, r) # n)

(* The double each function returns on samples of at least 2 numbers, by   *)
(* the same steps as the function.                                         *)

(* sum(data) / len(data): an int by an int, rounded once                   *)
mean_binary64(data) == DDiv(DFromInt(SumInts(data.items)), DFromInt(len(data)))

(* the builtin sum of floats: the terms added one after the other, from    *)
(* the first (CPython up to 3.11)                                          *)
RECURSIVE DSumFrom(_, _, _)
DSumFrom(terms, i, total) ==
    IF i > Len(terms) THEN total
    ELSE DSumFrom(terms, i + 1, DAdd(total, terms[i]))

DSum(terms) == DSumFrom(terms, 1, DZero)

(* pow(value - mean_value, 2) is the product rounded to the nearest double *)
_squared_difference_binary64(data, mean_value) ==
    DSum(Computed([i \in 1..len(data) |->
            LET d == DSub(DFromInt(data.items[i]), mean_value) IN DMul(d, d)]))

var_binary64(data, is_sample) ==
    LET n == len(data)
        m == mean_binary64(data)
    IN  DDiv(_squared_difference_binary64(data, m),
             DFromInt(IF is_sample THEN n - 1 ELSE n))

stdev_binary64(data, is_sample) == DSqrt(var_binary64(data, is_sample))

stderr_binary64(data, is_sample) ==
    DDiv(stdev_binary64(data, is_sample), DSqrt(DFromInt(len(data))))

pooled_var_binary64(data_x_, data_y_) ==
    LET nx == len(data_x_)
        ny == len(data_y_)
        var_x == var_binary64(data_x_, TRUE)
        var_y == var_binary64(data_y_, TRUE)
    IN  DDiv(DAdd(DMul(DFromInt(nx - 1), var_x), DMul(DFromInt(ny - 1), var_y)),
             DFromInt(nx + ny - 2))

(* the double the quantile function returns for the number ppf             *)
DQuantile(ppf) == DDiv(DFromInt(ppf[1]), DFromInt(ppf[2]))

(* m - me, m + me                                                          *)
Interval_binary64(m, me) == <<DSub(m, me), DAdd(m, me)>>

z_interval_binary64(data, ppf) ==
    LET m == mean_binary64(data)
        std_err == stderr_binary64(data, FALSE)
    IN  Interval_binary64(m, DMul(DQuantile(ppf), std_err))

z_interval_equal_var_binary64(data_x_, data_y_, ppf) ==
    LET nx == len(data_x_)
        ny == len(data_y_)
        var_x == var_binary64(data_x_, FALSE)
        var_y == var_binary64(data_y_, FALSE)
    IN  Interval_binary64(DSub(mean_binary64(data_x_), mean_binary64(data_y_)),
                          DMul(DQuantile(ppf),
                               DSqrt(DAdd(DDiv(var_x, DFromInt(nx)),
                                          DDiv(var_y, DFromInt(ny))))))

t_interval_binary64(data, ppf) ==
    LET m == mean_binary64(data)
        std_err == stderr_binary64(data, TRUE)
    IN  Interval_binary64(m, DMul(DQuantile(ppf), std_err))

t_interval_equal_var_binary64(data_x_, data_y_, ppf) ==
    LET nx == len(data_x_)
        ny == len(data_y_)
        p == pooled_var_binary64(data_x_, data_y_)
    IN  Interval_binary64(DSub(mean_binary64(data_x_), mean_binary64(data_y_)),
                          DMul(DQuantile(ppf),
                               DSqrt(DAdd(DDiv(p, DFromInt(nx)), DDiv(p, DFromInt(ny))))))
---------------------------------------------------------------------------
(* The statistics library as a state machine: the samples are the inputs,  *)
(* an action is one call of a public function on them; call, result and    *)
(* ppf_calls hold the last call, its outcome and the calls it made to the  *)
(* quantile collaborator.  The library keeps no state between calls, so a  *)
(* behaviour is one call on the samples drawn: a second call would only    *)
(* reach the states the first one reaches.                                 *)

ConfidenceLevels == {Rat(95, 100), Rat(9, 10)}

QuantileValues == {FromInt(k) : k \in 0..MaxQuantile}

lr == <<self_w, self_b, last_fit>>

InitLRUnused == self_w = None /\ self_b = None /\ last_fit = None

InitCall == call = [op |-> "none"] /\ result = NoResult /\ ppf_calls = <<>>

(* one sample, of numbers or of strings                                    *)
InitOne ==
    /\ data_x \in NumSamples \/ data_x \in StrSamples
    /\ data_y = EmptySample

(* two samples of numbers                                                  *)
InitPair ==
    /\ data_x \in PairSamples
    /\ data_y \in PairSamples

Init ==
    /\ InitOne \/ InitPair
    /\ InitCall
    /\ InitLRUnused

Called(c, r, calls) ==
    /\ call.op = "none"
    /\ call' = c
    /\ result' = r
    /\ ppf_calls' = calls
    /\ UNCHANGED <<data_x, data_y, lr>>

(* o: the outcome of an interval operation with its collaborator calls     *)
CalledWith(c, o) == Called(c, o.outcome, o.ppf)

CallMean == Called([op |-> "mean"], mean(data_x), <<>>)

(* var(data) or var(data, is_sample): passed says whether the caller gave  *)
(* is_sample                                                               *)
CallVar ==
    \E passed \in BOOLEAN, is_sample \in BOOLEAN :
        /\ passed \/ is_sample = is_sample_default
        /\ Called([op |-> "var", passed |-> passed, is_sample |-> is_sample],
                  var(data_x, is_sample), <<>>)

CallStdev ==
    \E is_sample \in BOOLEAN :
        Called([op |-> "stdev", is_sample |-> is_sample], stdev(data_x, is_sample), <<>>)

CallStderr ==
    \E is_sample \in BOOLEAN :
        Called([op |-> "stderr", is_sample |-> is_sample], stderr(data_x, is_sample), <<>>)

CallMedian == Called([op |-> "median"], median(data_x), <<>>)

CallMode == Called([op |-> "mode"], mode(data_x), <<>>)

CallCv ==
    \E is_sample \in BOOLEAN :
        Called([op |-> "cv", is_sample |-> is_sample], cv(data_x, is_sample), <<>>)

CallZscore == Called([op |-> "zscore"], zscore(data_x), <<>>)

CallTscore == Called([op |-> "tscore"], tscore(data_x), <<>>)

CallZInterval ==
    \E confidence_lvl \in ConfidenceLevels, ppf \in QuantileValues :
        CalledWith([op |-> "z_interval", ppf |-> ppf],
                   z_interval(data_x, confidence_lvl, ppf))

CallTInterval ==
    \E confidence_lvl \in ConfidenceLevels, ppf \in QuantileValues :
        CalledWith([op |-> "t_interval", ppf |-> ppf],
                   t_interval(data_x, confidence_lvl, ppf))

CallPooledVar == Called([op |-> "pooled_var"], pooled_var(data_x, data_y), <<>>)

CallCov ==
    \E is_sample \in BOOLEAN :
        Called([op |-> "cov", is_sample |-> is_sample], cov(data_x, data_y, is_sample), <<>>)

CallCorrelationR ==
    \E is_sample \in BOOLEAN :
        Called([op |-> "correlation_r", is_sample |-> is_sample],
               correlation_r(data_x, data_y, is_sample), <<>>)

CallZIntervalEqualVar ==
    \E confidence_lvl \in ConfidenceLevels, ppf \in QuantileValues :
        CalledWith([op |-> "z_interval_equal_var", ppf |-> ppf],
                   z_interval_equal_var(data_x, data_y, confidence_lvl, ppf))

CallTIntervalEqualVar ==
    \E confidence_lvl \in ConfidenceLevels, ppf \in QuantileValues :
        CalledWith([op |-> "t_interval_equal_var", ppf |-> ppf],
                   t_interval_equal_var(data_x, data_y, confidence_lvl, ppf))

Next ==
    \/ CallMean
    \/ CallVar
    \/ CallPooledVar
    \/ CallStdev
    \/ CallStderr
    \/ CallMedian
    \/ CallMode
    \/ CallCv
    \/ CallCov
    \/ CallCorrelationR
    \/ CallZscore
    \/ CallTscore
    \/ CallZInterval
    \/ CallZIntervalEqualVar
    \/ CallTInterval
    \/ CallTIntervalEqualVar

Spec == Init /\ [][Next]_vars

(* var alone, on longer samples of numbers                                 *)
VarSamples == {NumSample(s) : s \in SeqsUpTo(0..MaxVal, MaxVarLen)}

InitVar ==
    /\ data_x \in VarSamples
    /\ data_y = EmptySample
    /\ InitCall
    /\ InitLRUnused

NextVar == CallVar

SpecVar == InitVar /\ [][NextVar]_vars
---------------------------------------------------------------------------
(* Logistic regression.  X is a matrix given as the sequence of its rows   *)
(* (one row per feature, one column per example), Y a row vector of        *)
(* labels, w a column vector given as a sequence, b a scalar.              *)
(*                                                                         *)
(* np.exp has no rational value: _sigmoid is modelled by its tangent at 0  *)
(* clipped to [0, 1], which keeps sigmoid(0) = 1/2, monotonicity and       *)
(* sigmoid(z) > 1/2 <=> z > 0.  The cost that _propagate also computes     *)
(* goes to a local list (and to print); it never reaches w or b and is     *)
(* left out.                                                               *)

Half == Rat(1, 2)

_sigmoid(z) ==
    LET t == RAdd(Half, RDiv(z, FromInt(4)))
    IN  IF RLess(t, RZero) THEN RZero ELSE IF RLess(One, t) THEN One ELSE t

Rows(X) == Len(X)

Cols(X) == Len(X[1])

(* np.dot(w.T, X) + b: one entry per example.                              *)
Activation(w, b, X) ==
    Computed([e \in 1..Cols(X) |->
        _sigmoid(RAdd(SumRats(Computed([f \in 1..Rows(X) |->
                                           RMul(w[f], FromInt(X[f][e]))])), b))])

BroadcastError == Raise("ValueError", "operands could not be broadcast together")

NotAlignedError == Raise("ValueError", "shapes not aligned")

(* Y * np.log(A) broadcasts the shapes (1, m') and (1, m); np.dot(X,       *)
(* (A - Y).T) needs the m columns of X to meet the rows of (A - Y).T.      *)
_propagate(w, b, X, Y) ==
    LET m == Cols(X)
        m_inv == RDiv(One, FromInt(m))
        A == Activation(w, b, X)
        Yb == Computed([e \in 1..m |-> IF Len(Y) = 1 THEN Y[1] ELSE Y[e]])
        AY == Computed([e \in 1..m |-> RSub(A[e], FromInt(Yb[e]))])
        dw == Computed([f \in 1..Rows(X) |->
                  RMul(m_inv, SumRats(Computed([e \in 1..m |->
                                                   RMul(FromInt(X[f][e]), AY[e])])))])
        db == RMul(m_inv, SumRats(AY))
    IN  IF Len(Y) # m /\ Len(Y) # 1 /\ m # 1 THEN BroadcastError
        ELSE IF Len(Y) # m /\ Len(Y) # 1 THEN NotAlignedError
        ELSE Return("tuple", [dw |-> dw, db |-> db])

(* the loop body of _optimize, from iteration i on                         *)
RECURSIVE OptimizeFrom(_, _, _, _, _, _, _)
OptimizeFrom(i, w, b, X, Y, num_iterations, learning_rate) ==
    IF i >= num_iterations THEN Return("tuple", [w |-> w, b |-> b])
    ELSE LET g == _propagate(w, b, X, Y)
         IN  IF g.kind = "raise" THEN g
             ELSE OptimizeFrom(i + 1,
                               Computed([f \in 1..Len(w) |->
                                   RSub(w[f], RMul(learning_rate, g.value.dw[f]))]),
                               RSub(b, RMul(learning_rate, g.value.db)),
                               X, Y, num_iterations, learning_rate)

_optimize(w, b, X, Y, num_iterations, learning_rate) ==
    OptimizeFrom(0, w, b, X, Y, num_iterations, learning_rate)

NDArray(v) == [type |-> "ndarray", v |-> v]

Float(q) == [type |-> "float", v |-> q]

(* LogisticRegression.__init__                                             *)
NewInstance == [w |-> None, b |-> None]

(* np.zeros((X_train.shape[0], 1))                                         *)
Zeros(n) == Computed([f \in 1..n |-> RZero])

(* fit starting from the stored parameters when they fit the features      *)
fit_warm_start(self, X_train, Y_train, num_iterations, learning_rate) ==
    LET warm == self.w.type = "ndarray" /\ Len(self.w.v) = Rows(X_train)
        w == IF warm THEN self.w.v ELSE Zeros(Rows(X_train))
        b == IF warm THEN self.b.v ELSE RZero
        r == _optimize(w, b, X_train, Y_train, num_iterations, learning_rate)
    IN  IF r.kind = "raise" THEN [self |-> self, outcome |-> r]
        ELSE [self |-> [w |-> NDArray(r.value.w), b |-> Float(r.value.b)],
              outcome |-> Return("NoneType", None)]

(* fit: the instance after the call, and the call's outcome.               *)
fit(self, X_train, Y_train, num_iterations, learning_rate) ==
    LET w == Zeros(Rows(X_train))
        b == RZero
        r == _optimize(w, b, X_train, Y_train, num_iterations, learning_rate)
    IN  IF r.kind = "raise" THEN [self |-> self, outcome |-> r]
        ELSE [self |-> [w |-> NDArray(r.value.w), b |-> Float(r.value.b)],
              outcome |-> Return("NoneType", None)]

AttributeError == Raise("AttributeError", "'NoneType' object has no attribute 'T'")

(* predict: np.where(A > 0.5, 1, 0) over the examples of X.                *)
predict(self, X) ==
    IF self.w.type = "NoneType" THEN AttributeError
    ELSE IF Len(self.w.v) # Rows(X) THEN NotAlignedError
    ELSE LET A == Activation(self.w.v, self.b.v, X)
         IN  Return("ndarray",
                    Computed([e \in 1..Cols(X) |-> IF RLess(Half, A[e]) THEN 1 ELSE 0]))

(* The training sets and inputs of the model: one and two features, one    *)
(* and two examples, and label vectors of the same and of another length.  *)
Matrices ==
    { <<<<0, 1>>>>, <<<<1>>>>, <<<<0, 1>>, <<1, 1>>>> }

LabelVectors == { <<0, 1>>, <<1>> }

LearningRates == { One, Half }

FitArgs(X, Y, n, r) ==
    [X_train |-> X, Y_train |-> Y, num_iterations |-> n, learning_rate |-> r]

InitLR ==
    /\ data_x = EmptySample
    /\ data_y = EmptySample
    /\ InitCall
    /\ self_w = NewInstance.w
    /\ self_b = NewInstance.b
    /\ last_fit = [called |-> None, returned |-> None, overwrote |-> FALSE]

(* o: what fit yields on the stored instance, a: the arguments.  last_fit  *)
(* records the arguments of the last call of fit, those of the last call   *)
(* that returned, and whether that one found parameters stored.            *)
Fitted(o, a) ==
    /\ self_w' = o.self.w
    /\ self_b' = o.self.b
    /\ call' = [op |-> "fit"]
    /\ result' = o.outcome
    /\ last_fit' = [called |-> a,
                    returned |-> IF o.outcome.kind = "return" THEN a ELSE last_fit.returned,
                    overwrote |-> IF o.outcome.kind = "return"
                                  THEN self_w.type # "NoneType" ELSE last_fit.overwrote]
    /\ UNCHANGED <<data_x, data_y, ppf_calls>>

CallFit ==
    \E X \in Matrices, Y \in LabelVectors, n \in 0..MaxIter, r \in LearningRates :
        Fitted(fit([w |-> self_w, b |-> self_b], X, Y, n, r), FitArgs(X, Y, n, r))

(* predict storing zero parameters on an instance that has none            *)
CallPredictInitialising ==
    \E X \in Matrices :
        LET w == IF self_w.type = "NoneType" THEN NDArray(Zeros(Rows(X))) ELSE self_w
            b == IF self_b.type = "NoneType" THEN Float(RZero) ELSE self_b
        IN  /\ call' = [op |-> "predict", X |-> X]
            /\ result' = predict([w |-> w, b |-> b], X)
            /\ self_w' = w
            /\ self_b' = b
            /\ UNCHANGED <<data_x, data_y, ppf_calls, last_fit>>

CallPredict ==
    \E X \in Matrices :
        /\ call' = [op |-> "predict", X |-> X]
        /\ result' = predict([w |-> self_w, b |-> self_b], X)
        /\ UNCHANGED <<data_x, data_y, ppf_calls, self_w, self_b, last_fit>>

NextLR ==
    \/ CallFit
    \/ CallPredict

SpecLR == InitLR /\ [][NextLR]_vars
---------------------------------------------------------------------------
(* Properties.                                                             *)

OneSampleOps ==
    {"mean", "var", "stdev", "stderr", "median", "mode", "cv", "zscore", "tscore",
     "z_interval", "t_interval"}

TwoSampleOps ==
    {"pooled_var", "cov", "correlation_r", "z_interval_equal_var", "t_interval_equal_var"}

PairedOps == {"cov", "correlation_r"}

Raised(exc, msg) == result.kind = "raise" /\ result.exc = exc /\ result.msg = msg

InsufficientData == Raised("ValueError", MinLenMsg)

MismatchedLength == Raised("ValueError", SameLenMsg)

(* a sample of the call is too short                                       *)
ShortInput ==
    \/ call.op \in OneSampleOps /\ len(data_x) < 2
    \/ call.op \in TwoSampleOps /\ (len(data_x) < 2 \/ len(data_y) < 2)

(* C1: every public statistics operation called with a sample of length 0  *)
(* or 1 fails with the insufficient-data error, and no other error, before *)
(* any call of the quantile collaborator.                                  *)
C1_FailFast == ShortInput => InsufficientData /\ ppf_calls = <<>>

C1_Witness ==
    /\ call.op = "t_interval_equal_var"
    /\ len(data_x) = 3
    /\ len(data_y) = 1
    /\ InsufficientData

(* C2: cov and correlation_r on two samples of different lengths, both at  *)
(* least 2, fail with the mismatched-length error; when a length is below  *)
(* 2 they fail with the insufficient-data error, equal lengths or not.     *)
C2_EqualLength ==
    call.op \in PairedOps =>
        /\ len(data_x) >= 2 /\ len(data_y) >= 2 /\ len(data_x) # len(data_y)
              => MismatchedLength
        /\ len(data_x) < 2 \/ len(data_y) < 2 => InsufficientData

C2_Witness ==
    /\ call.op = "correlation_r"
    /\ len(data_x) = 2
    /\ len(data_y) = 3
    /\ MismatchedLength

(* the sequences with the elements of s in another order                   *)
Reorderings(s) ==
    {[i \in 1..Len(s) |-> s[p[i]]] :
        p \in {q \in [1..Len(s) -> 1..Len(s)] : \A i, j \in 1..Len(s) : q[i] = q[j] => i = j}}

Ascending(elem, s) == \A i \in 1..(Len(s) - 1) : ~ElemLess(elem, s[i + 1], s[i])

(* what C3 says median yields on the items of a sample of n >= 2 elements  *)
MedianOf(elem, items) ==
    LET n == Len(items)
        s == CHOOSE p \in Reorderings(items) : Ascending(elem, p)
        h == n \div 2
    IN  IF n % 2 = 1 THEN [type |-> IF elem = "num" THEN "int" ELSE "str", value |-> s[h + 1]]
        ELSE IF elem = "num" THEN [type |-> "float", value |-> Rat(s[h] + s[h + 1], 2)]
        ELSE [type |-> "tuple", value |-> <<s[h], s[h + 1]>>]

(* C3: median of n >= 2 elements is the middle element of the ascending    *)
(* sort when n is odd, the average of the two middle elements when n is    *)
(* even and the elements are numbers, the pair of the two middle elements  *)
(* when n is even and the elements are strings; and every permutation of   *)
(* the input has the same median.                                          *)
C3_Median ==
    call.op = "median" /\ len(data_x) >= 2 =>
        /\ result.kind = "return"
        /\ result.type = MedianOf(data_x.elem, data_x.items).type
        /\ result.value = MedianOf(data_x.elem, data_x.items).value
        /\ \A p \in Reorderings(data_x.items) :
              median([elem |-> data_x.elem, items |-> p]) = result

C3_Witness ==
    /\ call.op = "median"
    /\ data_x.elem = "str"
    /\ data_x.items = <<"d", "a", "c", "b">>
    /\ result.kind = "return"
    /\ result.value = <<"b", "c">>

Occurrences(items, x) == Cardinality({i \in 1..Len(items) : items[i] = x})

FirstIndex(items, x) == CHOOSE i \in 1..Len(items) :
                            items[i] = x /\ \A j \in 1..(i - 1) : items[j] # x

Values(items) == {items[i] : i \in 1..Len(items)}

(* the values that occur most often                                        *)
MostFrequent(items) ==
    {x \in Values(items) : \A y \in Values(items) : Occurrences(items, y) <= Occurrences(items, x)}

(* C4: mode of a sample of at least 2 elements is the value that occurs    *)
(* most often when there is one such value, and otherwise the list of the  *)
(* values that occur most often, each once, in the order of their first    *)
(* occurrence; a sample of distinct values is returned as it is.           *)
C4_Mode ==
    call.op = "mode" /\ len(data_x) >= 2 =>
        LET M == MostFrequent(data_x.items)
        IN  /\ result.kind = "return"
            /\ Cardinality(M) = 1 =>
                  result.type # "list" /\ result.value \in M
            /\ Cardinality(M) # 1 =>
                  /\ result.type = "list"
                  /\ Len(result.value) = Cardinality(M)
                  /\ Values(result.value) = M
                  /\ \A i, j \in 1..Len(result.value) :
                        i < j => FirstIndex(data_x.items, result.value[i])
                                     < FirstIndex(data_x.items, result.value[j])
            /\ Cardinality(Values(data_x.items)) = len(data_x) =>
                  result.type = "list" /\ result.value = data_x.items

C4_Witness ==
    /\ call.op = "mode"
    /\ data_x.items = <<2, 0, 1, 0>>
    /\ data_x.elem = "num"
    /\ result.kind = "return"
    /\ result.type = "int"
    /\ result.value = 0

C4_WitnessTie ==
    /\ call.op = "mode"
    /\ data_x.elem = "num"
    /\ data_x.items = <<2, 0, 0, 2>>
    /\ result.kind = "return"
    /\ result.value = <<2, 0>>
(* n * data[i] - sum(data): n times the deviation of element i from the    *)
(* mean                                                                    *)
Deviation(items, i) == Len(items) * items[i] - SumInts(items)

(* n * n times the sum of the squared deviations from the mean             *)
SquaredDeviations(items) ==
    SumInts(Computed([i \in 1..Len(items) |-> Deviation(items, i) * Deviation(items, i)]))

(* (data[i] - mean) / sqrt(sum of squared deviations / divisor)            *)
Score(items, i, divisor) ==
    Surd(Sign(Deviation(items, i)),
         Rat(divisor * Deviation(items, i) * Deviation(items, i), SquaredDeviations(items)))

DivisionByZero == Raised("ZeroDivisionError", "float division by zero")

Constant(items) == \A i, j \in 1..Len(items) : items[i] = items[j]

SelfCorrelation ==
    call.op = "correlation_r" /\ data_x = data_y /\ len(data_x) >= 2

DifferentLengths ==
    len(data_x) >= 2 /\ len(data_y) >= 2 /\ len(data_x) # len(data_y)

(* C7 as claimed: every operation on two samples fails when the lengths,   *)
(* both at least 2, differ.                                                *)
C7_AllRequireEqualLength ==
    call.op \in TwoSampleOps /\ DifferentLengths => result.kind = "raise"

(* C7, amended: on two samples of different lengths, both at least 2, cov  *)
(* and correlation_r fail with the mismatched-length error, while          *)
(* pooled_var, z_interval_equal_var and t_interval_equal_var return their  *)
(* result, a float or a pair of bounds.                                    *)
C7_OnlyPairedRequireEqualLength ==
    call.op \in TwoSampleOps /\ DifferentLengths =>
        /\ call.op \in PairedOps => MismatchedLength
        /\ call.op = "pooled_var" => result.kind = "return" /\ result.type = "float"
        /\ call.op \in {"z_interval_equal_var", "t_interval_equal_var"} =>
              result.kind = "return" /\ result.type = "tuple"

C7_Witness ==
    /\ call.op = "pooled_var"
    /\ len(data_x) = 2
    /\ len(data_y) = 3
    /\ result.kind = "return"

ValidScoreInput == len(data_x) >= 2 /\ data_x.elem = "num"

FreshFit(a) ==
    fit(NewInstance, a.X_train, a.Y_train, a.num_iterations, a.learning_rate).self

Unset == self_w = None /\ self_b = None

(* C9 as claimed: after any sequence of fit calls the stored parameters    *)
(* are those a new instance holds after the last fit call alone.           *)
C9_LastFitAlone ==
    last_fit.called # None =>
        self_w = FreshFit(last_fit.called).w /\ self_b = FreshFit(last_fit.called).b

(* C9, amended: after any sequence of fit calls the stored parameters are  *)
(* those a new instance holds after the last fit call that returned, alone *)
(* (a fit that raises leaves the stored parameters as they were): a fit    *)
(* that returns starts from zero weights and bias 0 and overwrites the     *)
(* stored parameters; while no fit has returned they are unset.            *)
C9_LastReturnedFit ==
    IF last_fit.returned = None THEN Unset
    ELSE /\ self_w = FreshFit(last_fit.returned).w
         /\ self_b = FreshFit(last_fit.returned).b
         /\ self_w.type = "ndarray"
         /\ Len(self_w.v) = Rows(last_fit.returned.X_train)

C9_Witness ==
    /\ call.op = "fit"
    /\ result.kind = "return"
    /\ last_fit.overwrote
    /\ last_fit.returned.num_iterations = 2
    /\ self_w.type = "ndarray"
    /\ self_w.v # Zeros(Len(self_w.v))

(* C10: predict returns labels only if a fit call has returned before on   *)
(* the instance; on an instance whose w and b are unset it fails with an   *)
(* error and leaves them unset; and predict never changes w and b.         *)
C10_Predict ==
    [][call'.op = "predict" =>
          /\ self_w' = self_w /\ self_b' = self_b
          /\ result'.kind = "return" =>
                last_fit.returned # None /\ result'.type = "ndarray"
          /\ Unset =>
                result'.kind = "raise" /\ result'.exc = "AttributeError" /\ Unset']_vars

C10_Witness ==
    /\ call.op = "predict"
    /\ Unset
    /\ result.kind = "raise"
    /\ result.exc = "AttributeError"

C10_WitnessFitted ==
    /\ call.op = "predict"
    /\ result.kind = "return"
    /\ result.value = <<0, 1>>

(* the sum of the squared deviations of the items from their mean          *)
SumOfSquares(items) == Rat(SquaredDeviations(items), Len(items) * Len(items))

(* var has been called on a sample of at least 2 numbers                   *)
VarCalled == call.op = "var" /\ data_x.elem = "num" /\ len(data_x) >= 2

(* C11 as claimed: on every sample of n >= 2 numbers the floats            *)
(* var(data, True) * (n - 1) and var(data, False) * n are equal (==).      *)
C11_EqualFloats ==
    VarCalled =>
        LET n == len(data_x)
        IN  DMul(var_binary64(data_x, TRUE), DFromInt(n - 1))
                = DMul(var_binary64(data_x, FALSE), DFromInt(n))

(* C11, amended: on a sample of n >= 2 numbers, var with is_sample true is *)
(* the sum of the squared deviations from the mean divided by n - 1 and    *)
(* var with is_sample false is the same sum divided by n, so that          *)
(* var(data, True) * (n - 1) = var(data, False) * n as real numbers (the   *)
(* floats agree up to rounding only); a call that leaves is_sample out     *)
(* computes the former.                                                    *)
C11_Variance ==
    VarCalled =>
        LET items == data_x.items
            n == Len(items)
            sample == var(data_x, TRUE)
            population == var(data_x, FALSE)
        IN  /\ sample = Return("float", RDiv(SumOfSquares(items), FromInt(n - 1)))
            /\ population = Return("float", RDiv(SumOfSquares(items), FromInt(n)))
            /\ RMul(sample.value, FromInt(n - 1)) = RMul(population.value, FromInt(n))
            /\ result = IF call.is_sample THEN sample ELSE population
            /\ ~call.passed => result = sample

C11_Witness ==
    /\ VarCalled
    /\ data_x.items = <<0, 2, 1, 2>>
    /\ ~call.passed
    /\ result = Return("float", Rat(11, 12))
    /\ var(data_x, FALSE) = Return("float", Rat(11, 16))

C11_WitnessPopulation ==
    /\ VarCalled
    /\ data_x.items = <<0, 2, 1, 2>>
    /\ call.passed
    /\ ~call.is_sample
    /\ result = Return("float", Rat(11, 16))

OneSampleIntervalOps == {"z_interval", "t_interval"}

TwoSampleIntervalOps == {"z_interval_equal_var", "t_interval_equal_var"}

Numbers(data) == data.elem = "num" /\ len(data) >= 2

(* an interval operation has been called on valid input                    *)
IntervalCalled ==
    \/ call.op \in OneSampleIntervalOps /\ Numbers(data_x)
    \/ call.op \in TwoSampleIntervalOps /\ Numbers(data_x) /\ Numbers(data_y)

MeanOf(items) == Rat(SumInts(items), Len(items))

(* mean(data) for a one-sample interval, mean(x) - mean(y) for a           *)
(* two-sample one                                                          *)
Centre ==
    IF call.op \in OneSampleIntervalOps THEN MeanOf(data_x.items)
    ELSE RSub(MeanOf(data_x.items), MeanOf(data_y.items))

(* bound - c and c - bound for a bound q + s, q rational and s a surd      *)
Above(bound, c) == Lin(RSub(bound.rat, c), bound.surd)

Below(bound, c) == Lin(RSub(c, bound.rat), SNeg(bound.surd))

(* the pair of doubles the interval operation called returns               *)
Bounds_binary64 ==
    IF call.op = "z_interval" THEN z_interval_binary64(data_x, call.ppf)
    ELSE IF call.op = "t_interval" THEN t_interval_binary64(data_x, call.ppf)
    ELSE IF call.op = "z_interval_equal_var"
        THEN z_interval_equal_var_binary64(data_x, data_y, call.ppf)
    ELSE t_interval_equal_var_binary64(data_x, data_y, call.ppf)

Centre_binary64 ==
    IF call.op \in OneSampleIntervalOps THEN mean_binary64(data_x)
    ELSE DSub(mean_binary64(data_x), mean_binary64(data_y))

(* C12 as claimed: the floats upper - c and c - lower are equal (==) for   *)
(* the four interval operations on samples of at least 2 numbers, whatever *)
(* the quantile.                                                           *)
C12_SymmetricFloats ==
    IntervalCalled =>
        LET bounds == Bounds_binary64
            c == Centre_binary64
        IN  DSub(bounds[2], c) = DSub(c, bounds[1])

(* C12, amended: z_interval, t_interval, z_interval_equal_var and          *)
(* t_interval_equal_var, on samples of at least 2 numbers, with any        *)
(* confidence level and whatever number the quantile function returns,     *)
(* return a pair (lower, upper) with upper - c = c - lower as real         *)
(* numbers (the floats agree up to rounding only), where c is mean(data)   *)
(* for the one-sample intervals and mean(x) - mean(y) for the two-sample   *)
(* ones; the common distance is the margin of error.                       *)
C12_Symmetric ==
    IntervalCalled =>
        /\ result.kind = "return"
        /\ result.type = "tuple"
        /\ Len(result.value) = 2
        /\ LET lower == result.value[1]
               upper == result.value[2]
           IN  /\ Above(upper, Centre) = Below(lower, Centre)
               /\ Above(upper, Centre).rat = RZero

C12_Witness ==
    /\ IntervalCalled
    /\ call.op = "t_interval_equal_var"
    /\ data_x.items = <<0, 1, 1>>
    /\ data_y.items = <<0, 1>>
    /\ call.ppf = One
    /\ Centre = Rat(1, 6)
    /\ result.kind = "return"
    /\ result.value[2].surd.sgn = 1

C12_WitnessOneSample ==
    /\ IntervalCalled
    /\ call.op = "z_interval"
    /\ data_x.items = <<0, 2, 1, 2>>
    /\ call.ppf = One
    /\ result.kind = "return"
    /\ result.value = <<Lin(Rat(5, 4), Surd(-1, Rat(11, 64))), Lin(Rat(5, 4), Surd(1, Rat(11, 64)))>>
====
